---------------------------- MODULE Spec2Model ----------------------------
(***************************************************************************)
(* bib_sort: a model of src/src/main.rs and src/src/sort_by_author.rs.     *)
(*                                                                         *)
(* Text is a sequence of one-character strings.  A line of the input file  *)
(* is a text without "\n".  Option<T> is a sequence of length 0 (None) or  *)
(* 1 (Some).                                                               *)
(***************************************************************************)
EXTENDS Integers, Sequences, FiniteSets, TLC

VARIABLES
    opts,             \* Opts, as parsed from the command line
    file,             \* the lines of the input file (BufReader::lines)
    pos,              \* line_iter: how many lines of file were pulled
    leftover,         \* LineIterHelper::leftover : Option<String>
    reader,           \* "open" until drop(line_iter_helper)
    pc,               \* where main is
    id,               \* key of the entry being accumulated
    raw_id,           \* history: that key as matched, before case_fn
    content,          \* text of the entry being accumulated
    bracket_counter,  \* BracketCounter {open, close} of that entry
    entries,          \* Vec<BibEntry>
    parsed,           \* history: the entries in the order they were pushed
    reports,          \* what eprintln! printed, in order
    err,              \* the panic message kind, "" while none
    out_created,      \* File::create(out_path) was called
    detected_duplicates, \* the flag of the duplicate passes
    doi_set,          \* BTreeSet of the DOI tokens seen
    doi_i,            \* how many entries the DOI loop has visited
    out,              \* contents handed to writeln!, in order
    run,              \* 1: the run on the input; 2: a run on run 1's output
    prev_out,         \* history: what run 1 wrote, once run 2 has started
    received,         \* history: the items line_iter_helper.next() returned
    arg,              \* the text a function of the program is called with
    fn,               \* the function that was called, "" before the call
    ret               \* what the call returned

vars == <<opts, file, pos, leftover, reader, pc, id, raw_id, content,
          bracket_counter, entries, parsed, reports, err, out_created,
          detected_duplicates, doi_set, doi_i, out, run,
          prev_out, received, arg, fn, ret>>

(***************************************************************************)
(* Bound of the model: the number of lines of an input file.               *)
(***************************************************************************)
MaxLines == 3

---------------------------------------------------------------------------
(* Characters and strings.                                                 *)

\* The byte value of a character (String's Ord compares bytes).
Ord(c) ==
    CASE c = "\t" -> 9   [] c = "\n" -> 10  [] c = " " -> 32
      [] c = "\"" -> 34  [] c = "'" -> 39   [] c = "(" -> 40
      [] c = ")" -> 41   [] c = "," -> 44   [] c = "-" -> 45
      [] c = "." -> 46   [] c = "/" -> 47   [] c = "0" -> 48
      [] c = "1" -> 49   [] c = "2" -> 50   [] c = ":" -> 58
      [] c = "=" -> 61   [] c = "@" -> 64
      [] c = "A" -> 65   [] c = "B" -> 66   [] c = "C" -> 67
      [] c = "D" -> 68   [] c = "I" -> 73   [] c = "J" -> 74
      [] c = "N" -> 78   [] c = "O" -> 79   [] c = "S" -> 83
      [] c = "Z" -> 90
      [] c = "\\" -> 92  [] c = "_" -> 95
      [] c = "a" -> 97   [] c = "b" -> 98   [] c = "c" -> 99
      [] c = "d" -> 100  [] c = "e" -> 101  [] c = "h" -> 104
      [] c = "i" -> 105  [] c = "j" -> 106  [] c = "m" -> 109
      [] c = "n" -> 110  [] c = "o" -> 111
      [] c = "r" -> 114  [] c = "s" -> 115  [] c = "t" -> 116
      [] c = "u" -> 117
      [] c = "x" -> 120  [] c = "y" -> 121  [] c = "z" -> 122
      [] c = "{" -> 123  [] c = "}" -> 125

\* char::to_lowercase on the characters of the model.
LowerChar(c) ==
    CASE c = "A" -> "a" [] c = "B" -> "b" [] c = "C" -> "c"
      [] c = "D" -> "d" [] c = "I" -> "i" [] c = "J" -> "j"
      [] c = "N" -> "n" [] c = "O" -> "o" [] c = "S" -> "s"
      [] c = "Z" -> "z" [] OTHER -> c

\* str::to_lowercase
to_lowercase(s) == [i \in 1..Len(s) |-> LowerChar(s[i])]

\* str::to_owned
to_owned(s) == s

\* char::is_whitespace, and the regex class \s
IsWhitespace(c) == c \in {" ", "\t", "\n"}

\* the regex class \w
IsWord(c) ==
    \/ Ord(c) \in 48..57
    \/ Ord(c) \in 65..90
    \/ Ord(c) \in 97..122
    \/ c = "_"

Min(S) == CHOOSE x \in S : \A y \in S : x <= y
Max(S) == CHOOSE x \in S : \A y \in S : x >= y

\* &s[i..] with 1-based i
From(s, i) == SubSeq(s, i, Len(s))

\* mutant of trim_start: leading whitespace is kept
trim_start_keeps_all(s) == s

\* str::trim_start
trim_start(s) ==
    LET keep == {i \in 1..Len(s) : ~IsWhitespace(s[i])}
    IN  IF keep = {} THEN <<>> ELSE From(s, Min(keep))

\* str::trim
trim(s) ==
    LET keep == {i \in 1..Len(s) : ~IsWhitespace(s[i])}
    IN  IF keep = {} THEN <<>> ELSE SubSeq(s, Min(keep), Max(keep))

\* the index of the first position >= i of s that is not whitespace
\* (Len(s)+1 when there is none): where a greedy \s* ends
SkipSpace(s, i) ==
    LET stop == {j \in i..Len(s) : ~IsWhitespace(s[j])}
    IN  IF stop = {} THEN Len(s) + 1 ELSE Min(stop)

\* String's Ord: lexicographic on bytes, a proper prefix is smaller
StrLess(a, b) ==
    \E i \in 1..(Len(b)) :
        /\ \A j \in 1..(i - 1) : j <= Len(a) /\ a[j] = b[j]
        /\ \/ i = Len(a) + 1
           \/ i <= Len(a) /\ Ord(a[i]) < Ord(b[i])

\* the concatenation of a sequence of texts
RECURSIVE Concat(_)
Concat(ss) == IF ss = <<>> THEN <<>> ELSE Head(ss) \o Concat(Tail(ss))

---------------------------------------------------------------------------
(* The regular expressions of main.                                        *)

\* re = Regex::new(r"@.*\{"), re.find(s): the leftmost "@" that a "{" follows
\* on the same line, then greedily up to the LAST such "{".  The result is
\* m.end() as the 1-based index of that "{", 0 for None.
EntryStartEnd(s) ==
    LET braces(i) == {j \in (i + 1)..Len(s) :
                        /\ s[j] = "{"
                        /\ \A k \in (i + 1)..(j - 1) : s[k] # "\n"}
        starts == {i \in 1..Len(s) : s[i] = "@" /\ braces(i) # {}}
    IN  IF starts = {} THEN 0 ELSE Max(braces(Min(starts)))

\* id_regex = Regex::new(r"[^,\s]+"), id_regex.find(s): the first maximal
\* run of characters that are neither "," nor whitespace, as Option<&str>
IdFind(s) ==
    LET isId(i) == s[i] # "," /\ ~IsWhitespace(s[i])
        ids == {i \in 1..Len(s) : isId(i)}
    IN  IF ids = {} THEN <<>>
        ELSE LET b == Min(ids)
                 stop == {j \in b..Len(s) : ~isId(j)}
                 e == IF stop = {} THEN Len(s) ELSE Min(stop) - 1
             IN  <<SubSeq(s, b, e)>>

\* mutant of case_fn: the key is folded whatever the option says
case_fn_folds_always(s) == to_lowercase(s)

\* case_fn
case_fn(s) == IF opts.case_sensitive THEN to_owned(s) ELSE to_lowercase(s)

---------------------------------------------------------------------------
(* BracketCounter                                                          *)

BracketCounterDefault == [open |-> 0, close |-> 0]

equal_brackets(bc) == bc.open = bc.close

\* count_brackets_return_content from character i of s on.  The result:
\* the counter, the content returned, the leftover handed to the line
\* supply (Option) and whether the scan panicked.
RECURSIVE CountFrom(_, _, _)
CountFrom(bc, s, i) ==
    IF i > Len(s)
    THEN [bc |-> bc, content |-> s, leftover |-> <<>>, panic |-> FALSE]
    ELSE IF s[i] = "{"
    THEN CountFrom([bc EXCEPT !.open = @ + 1], s, i + 1)
    ELSE IF s[i] = "}"
    THEN LET nbc == [bc EXCEPT !.close = @ + 1]
         IN  IF equal_brackets(nbc)
             THEN [bc |-> nbc, content |-> SubSeq(s, 1, i),
                   leftover |-> IF i < Len(s) THEN <<From(s, i + 1)>>
                                ELSE <<>>,
                   panic |-> FALSE]
             ELSE IF nbc.close > nbc.open
             THEN [bc |-> nbc, content |-> SubSeq(s, 1, i),
                   leftover |-> <<>>, panic |-> TRUE]
             ELSE CountFrom(nbc, s, i + 1)
    ELSE CountFrom(bc, s, i + 1)

\* mutant of count_brackets_return_content: the scan does not stop at the
\* balancing brace, the whole line is returned
count_brackets_return_line(bc, s) ==
    [CountFrom(bc, s, 1) EXCEPT !.content = s, !.leftover = <<>>]

count_brackets_return_content(bc, s) == CountFrom(bc, s, 1)

---------------------------------------------------------------------------
(* LineIterHelper                                                          *)

\* LineIterHelper::next: the pending leftover if there is one, else the next
\* line of the file.  item is Option<String>.
\* mutant of LineIterNext: line_iter.next().or_else(|| leftover.take()),
\* the next line of the file is preferred to the pending leftover
LineIterNextLineFirst ==
    IF pos < Len(file)
    THEN [item |-> <<file[pos + 1]>>, leftover |-> leftover, pos |-> pos + 1,
          kind |-> "line"]
    ELSE [item |-> leftover, leftover |-> <<>>, pos |-> pos,
          kind |-> "leftover"]

\* mutant of LineIterNext: self.leftover.clone().or_else(..), the leftover
\* is returned and stays pending
LineIterNextKeepsLeftover ==
    IF leftover # <<>>
    THEN [item |-> leftover, leftover |-> leftover, pos |-> pos,
          kind |-> "leftover"]
    ELSE IF pos < Len(file)
    THEN [item |-> <<file[pos + 1]>>, leftover |-> <<>>, pos |-> pos + 1,
          kind |-> "line"]
    ELSE [item |-> <<>>, leftover |-> <<>>, pos |-> pos, kind |-> "line"]

LineIterNext ==
    IF leftover # <<>>
    THEN [item |-> leftover, leftover |-> <<>>, pos |-> pos,
          kind |-> "leftover"]
    ELSE IF pos < Len(file)
    THEN [item |-> <<file[pos + 1]>>, leftover |-> <<>>, pos |-> pos + 1,
          kind |-> "line"]
    ELSE [item |-> <<>>, leftover |-> <<>>, pos |-> pos, kind |-> "line"]

\* history: the item n that next() returned is noted, with where it came
\* from
Receive(n) ==
    IF n.item = <<>> THEN received
    ELSE Append(received, [text |-> n.item[1], kind |-> n.kind])

\* line_iter_helper.leftover after a call of count_brackets_return_content
\* that returned r, when it was lo before
SetLeftover(lo, r) == IF r.leftover # <<>> THEN r.leftover ELSE lo

---------------------------------------------------------------------------
(* main: the segmenter loop                                                *)

BibEntry(i, c) == [id |-> i, content |-> c]

\* history: an entry as it was pushed, with its key before case_fn
Parsed(i, c, r) == [id |-> i, content |-> c, raw |-> r]

Panic(kind) == pc' = "panic" /\ err' = kind

\* One iteration of `while let Some(line) = line_iter_helper.next()` up to
\* the first count_brackets_return_content, and the push when the entry is
\* complete on that line.
ScanLine ==
    /\ pc = "scan"
    /\ LET n == LineIterNext IN
       /\ pos' = n.pos
       /\ received' = Receive(n)
       /\ IF n.item = <<>>
          THEN /\ pc' = "drop"
               /\ leftover' = n.leftover
               /\ UNCHANGED <<id, raw_id, content, bracket_counter, entries, parsed,
                              err>>
          ELSE LET line == n.item[1]
                   no_leading_whitespace == trim_start(line)
                   m == EntryStartEnd(no_leading_whitespace)
                   id_match == IdFind(From(no_leading_whitespace, m + 1))
                   new_raw == IF id_match = <<>> THEN <<>> ELSE id_match[1]
                   new_id == case_fn(new_raw)
                   r == count_brackets_return_content(
                            BracketCounterDefault, no_leading_whitespace)
               IN
               IF no_leading_whitespace = <<>>
               THEN /\ pc' = "scan"
                    /\ leftover' = n.leftover
                    /\ UNCHANGED <<id, raw_id, content, bracket_counter, entries,
                                   parsed, err>>
               ELSE IF no_leading_whitespace[1] # "@"
               THEN /\ Panic("line outside bib item")
                    /\ leftover' = n.leftover
                    /\ UNCHANGED <<id, raw_id, content, bracket_counter, entries,
                                   parsed>>
               ELSE IF m = 0
               THEN /\ Panic("missing opening brace")
                    /\ leftover' = n.leftover
                    /\ UNCHANGED <<id, raw_id, content, bracket_counter, entries,
                                   parsed>>
               ELSE IF id_match = <<>> /\ ~opts.allow_empty_keys
               THEN /\ Panic("cannot find key")
                    /\ leftover' = n.leftover
                    /\ UNCHANGED <<id, raw_id, content, bracket_counter, entries,
                                   parsed>>
               ELSE IF r.panic
               THEN /\ Panic("bracket closed before opened")
                    /\ leftover' = n.leftover
                    /\ id' = new_id
                    /\ raw_id' = new_raw
                    /\ content' = r.content
                    /\ bracket_counter' = r.bc
                    /\ UNCHANGED <<entries, parsed>>
               ELSE /\ leftover' = SetLeftover(n.leftover, r)
                    /\ UNCHANGED err
                    /\ IF equal_brackets(r.bc)
                       THEN /\ pc' = "scan"
                            /\ entries' = Append(entries,
                                                 BibEntry(new_id, r.content))
                            /\ parsed' = Append(parsed,
                                   Parsed(new_id, r.content, new_raw))
                            /\ id' = <<>>
                            /\ raw_id' = <<>>
                            /\ content' = <<>>
                            /\ bracket_counter' = BracketCounterDefault
                       ELSE /\ pc' = "accum"
                            /\ id' = new_id
                            /\ raw_id' = new_raw
                            /\ content' = r.content
                            /\ bracket_counter' = r.bc
                            /\ UNCHANGED <<entries, parsed>>
    /\ UNCHANGED <<opts, file, reader, reports, out_created,
                   detected_duplicates, doi_set, doi_i, out, run, prev_out,
                   arg, fn, ret>>

\* One iteration of `while !bracket_counter.equal_brackets()`, and the push
\* when the loop ends.
AccumLine ==
    /\ pc = "accum"
    /\ LET n == LineIterNext IN
       /\ pos' = n.pos
       /\ received' = Receive(n)
       /\ IF n.item = <<>>
          THEN /\ Panic("unexpected end of file")
               /\ leftover' = n.leftover
               /\ UNCHANGED <<id, raw_id, content, bracket_counter, entries, parsed>>
          ELSE LET next_line == n.item[1]
                   r == count_brackets_return_content(bracket_counter,
                                                      next_line)
                   new_content == content \o <<"\n">> \o r.content
               IN
               IF r.panic
               THEN /\ Panic("bracket closed before opened")
                    /\ leftover' = n.leftover
                    /\ bracket_counter' = r.bc
                    /\ UNCHANGED <<id, raw_id, content, entries, parsed>>
               ELSE /\ leftover' = SetLeftover(n.leftover, r)
                    /\ UNCHANGED err
                    /\ IF equal_brackets(r.bc)
                       THEN /\ pc' = "scan"
                            /\ entries' = Append(entries,
                                                 BibEntry(id, new_content))
                            /\ parsed' = Append(parsed,
                                   Parsed(id, new_content, raw_id))
                            /\ id' = <<>>
                            /\ raw_id' = <<>>
                            /\ content' = <<>>
                            /\ bracket_counter' = BracketCounterDefault
                       ELSE /\ pc' = "accum"
                            /\ content' = new_content
                            /\ bracket_counter' = r.bc
                            /\ UNCHANGED <<id, raw_id, entries, parsed>>
    /\ UNCHANGED <<opts, file, reader, reports, out_created,
                   detected_duplicates, doi_set, doi_i, out, run, prev_out,
                   arg, fn, ret>>

\* mutant of DropReader: the handle is kept until the process ends
DropReaderKeepsHandle ==
    /\ pc = "drop"
    /\ pc' = "sort"
    /\ UNCHANGED <<opts, file, pos, leftover, reader, id, raw_id, content,
                   bracket_counter, entries, parsed, reports, err,
                   out_created, detected_duplicates, doi_set, doi_i, out,
                   run, prev_out, arg, fn, ret, received>>

\* drop(line_iter_helper)
DropReader ==
    /\ pc = "drop"
    /\ reader' = "dropped"
    /\ pc' = "sort"
    /\ UNCHANGED <<opts, file, pos, leftover, id, raw_id, content, bracket_counter,
                   entries, parsed, reports, err, out_created,
                   detected_duplicates, doi_set, doi_i, out, run, prev_out,
                   arg, fn, ret, received>>

---------------------------------------------------------------------------
(* main: sorting by key and the duplicate passes                           *)

\* mutant of sort_by_cached_key: of the elements with one key only the
\* first is kept (a map keyed by the sort key)
sort_by_cached_key_dedup(seq, keys) ==
    LET n == Len(seq)
        firsts == {i \in 1..n : \A j \in 1..(i - 1) : keys[j] # keys[i]}
        rank(i) == Cardinality({j \in firsts : StrLess(keys[j], keys[i])}) + 1
    IN  [r \in 1..Cardinality(firsts) |->
            seq[CHOOSE i \in firsts : rank(i) = r]]

\* mutant of sort_by_cached_key: an unstable sort, equal keys come out in
\* reverse order
sort_by_cached_key_unstable(seq, keys) ==
    LET n == Len(seq)
        before(i, j) == \/ StrLess(keys[i], keys[j])
                        \/ keys[i] = keys[j] /\ i > j
        rank(i) == Cardinality({j \in 1..n : before(j, i)}) + 1
    IN  [r \in 1..n |-> seq[CHOOSE i \in 1..n : rank(i) = r]]

\* slice::sort_by_cached_key with the keys already computed: a stable sort,
\* keys compared as Strings
sort_by_cached_key(seq, keys) ==
    LET n == Len(seq)
        before(i, j) == \/ StrLess(keys[i], keys[j])
                        \/ keys[i] = keys[j] /\ i < j
        rank(i) == Cardinality({j \in 1..n : before(j, i)}) + 1
    IN  [r \in 1..n |-> seq[CHOOSE i \in 1..n : rank(i) = r]]

\* mutant of SortById: the entries are left in input order
SortByIdSkipped(es) == es

\* entries.sort_by_cached_key(|entry| entry.id.clone())
SortById(es) == sort_by_cached_key(es, [i \in 1..Len(es) |-> es[i].id])

SortEntries ==
    /\ pc = "sort"
    /\ entries' = SortById(entries)
    /\ pc' = IF opts.no_duplicate_detection THEN "author" ELSE "dupkeys"
    /\ UNCHANGED <<opts, file, pos, leftover, reader, id, raw_id, content,
                   bracket_counter, parsed, reports, err, out_created,
                   detected_duplicates, doi_set, doi_i, out, run, prev_out,
                   arg, fn, ret, received>>

\* the test of the windows(2) closure on slice[0], slice[1]
IsDuplicatePair(a, b) == a.id # <<>> /\ a.id = b.id

\* entries.windows(2).for_each(..) from window w on: the "Duplicate key"
\* messages, in order
RECURSIVE DuplicateKeyReports(_, _)
DuplicateKeyReports(es, w) ==
    IF w + 1 > Len(es) THEN <<>>
    ELSE (IF IsDuplicatePair(es[w], es[w + 1])
          THEN <<[kind |-> "Duplicate key", what |-> es[w].id]>>
          ELSE <<>>) \o DuplicateKeyReports(es, w + 1)

\* `if !opts.allow_doi_duplicates`, inside `if !opts.no_duplicate_detection`
DoiPassEnabled == ~opts.allow_doi_duplicates

DuplicateKeys ==
    /\ pc = "dupkeys"
    /\ LET found == DuplicateKeyReports(entries, 1) IN
       /\ reports' = reports \o found
       /\ detected_duplicates' = (found # <<>>)
    /\ doi_set' = {}
    /\ doi_i' = 0
    /\ pc' = IF DoiPassEnabled THEN "doi" ELSE "check"
    /\ UNCHANGED <<opts, file, pos, leftover, reader, id, raw_id, content,
                   bracket_counter, entries, parsed, err, out_created, out,
                   run, prev_out, arg, fn, ret, received>>

\* Regex::new(r"(?i)\bNAME\s*=\s*").find(s) for a lower-case NAME: the
\* 1-based index of the first character after the leftmost match, 0 for None
FieldPosFind(s, name) ==
    LET k == Len(name)
        eq(p) == SkipSpace(s, p + k)
        ok(p) == /\ p + k - 1 <= Len(s)
                 /\ to_lowercase(SubSeq(s, p, p + k - 1)) = name
                 /\ (p = 1 \/ ~IsWord(s[p - 1]))
                 /\ eq(p) <= Len(s)
                 /\ s[eq(p)] = "="
        hits == {p \in 1..Len(s) : ok(p)}
    IN  IF hits = {} THEN 0 ELSE SkipSpace(s, eq(Min(hits)) + 1)

doi_position_regex(s) == FieldPosFind(s, <<"d", "o", "i">>)

\* str::split_once(',') applied as in main: the part before the first ","
\* if there is one, else the whole text
BeforeComma(s) ==
    LET commas == {i \in 1..Len(s) : s[i] = ","}
    IN  IF commas = {} THEN s ELSE SubSeq(s, 1, Min(commas) - 1)

\* the character class [\)\(\.\w/\-:]
IsDoiChar(c) == IsWord(c) \/ c \in {")", "(", ".", "/", "-", ":"}

\* Regex::new(r"10\.[\)\(\.\w/\-:]+").find(s) as Option<&str>
doi_regex(s) ==
    LET ok(p) == /\ p + 3 <= Len(s)
                 /\ s[p] = "1" /\ s[p + 1] = "0" /\ s[p + 2] = "."
                 /\ IsDoiChar(s[p + 3])
        hits == {p \in 1..Len(s) : ok(p)}
    IN  IF hits = {} THEN <<>>
        ELSE LET b == Min(hits)
                 stop == {j \in (b + 3)..Len(s) : ~IsDoiChar(s[j])}
                 e == IF stop = {} THEN Len(s) ELSE Min(stop) - 1
             IN  <<SubSeq(s, b, e)>>

\* mutant of DoiExempt: entries without a key are scanned too
DoiExemptNone(e) == FALSE

\* `if id.is_empty() { continue; }`
DoiExempt(e) == e.id = <<>>

\* mutant of UnparseableDoiIsFatal: such an entry is always skipped
UnparseableDoiSkipped == FALSE

\* without allow_empty_doi a doi field without a DOI token panics
UnparseableDoiIsFatal == ~opts.allow_empty_doi

\* One iteration of `for BibEntry { content, id } in entries.iter()`
DoiStep ==
    /\ pc = "doi"
    /\ doi_i < Len(entries)
    /\ doi_i' = doi_i + 1
    /\ LET e == entries[doi_i + 1]
           doi_pos_end == doi_position_regex(e.content)
           str_containing_doi_next ==
               BeforeComma(From(e.content, doi_pos_end))
           doi == doi_regex(str_containing_doi_next)
       IN
       IF DoiExempt(e) \/ doi_pos_end = 0
       THEN /\ pc' = "doi"
            /\ UNCHANGED <<doi_set, detected_duplicates, reports, err>>
       ELSE IF doi = <<>>
       THEN IF UnparseableDoiIsFatal
            THEN /\ Panic("cannot parse DOI")
                 /\ UNCHANGED <<doi_set, detected_duplicates, reports>>
            ELSE /\ pc' = "doi"
                 /\ UNCHANGED <<doi_set, detected_duplicates, reports, err>>
       ELSE /\ pc' = "doi"
            /\ doi_set' = doi_set \cup {doi[1]}
            /\ UNCHANGED err
            /\ IF doi[1] \in doi_set
               THEN /\ detected_duplicates' = TRUE
                    /\ reports' = Append(reports,
                           [kind |-> "Duplicate DOI", what |-> doi[1]])
               ELSE UNCHANGED <<detected_duplicates, reports>>
    /\ UNCHANGED <<opts, file, pos, leftover, reader, id, raw_id, content,
                   bracket_counter, entries, parsed, out_created, out, run,
                   prev_out, arg, fn, ret, received>>

\* the end of the DOI loop
DoiDone ==
    /\ pc = "doi"
    /\ doi_i = Len(entries)
    /\ pc' = "check"
    /\ UNCHANGED <<opts, file, pos, leftover, reader, id, raw_id, content,
                   bracket_counter, entries, parsed, reports, err,
                   out_created, detected_duplicates, doi_set, doi_i, out,
                   run, prev_out, arg, fn, ret, received>>

\* if detected_duplicates { panic!(..) }
CheckDuplicates ==
    /\ pc = "check"
    /\ IF detected_duplicates
       THEN Panic("duplicates detected")
       ELSE pc' = "author" /\ UNCHANGED err
    /\ UNCHANGED <<opts, file, pos, leftover, reader, id, raw_id, content,
                   bracket_counter, entries, parsed, reports, out_created,
                   detected_duplicates, doi_set, doi_i, out, run, prev_out,
                   arg, fn, ret, received>>

---------------------------------------------------------------------------
(* sort_by_author.rs                                                       *)

AUTHOR_POS_REGEX(s) == FieldPosFind(s, <<"a", "u", "t", "h", "o", "r">>)

\* AND = Regex::new(r"(?i)\band\b"), AND.find(s): and_match.start() as a
\* 1-based index, 0 for None
AND(s) ==
    LET ok(p) == /\ p + 2 <= Len(s)
                 /\ to_lowercase(SubSeq(s, p, p + 2)) = <<"a", "n", "d">>
                 /\ (p = 1 \/ ~IsWord(s[p - 1]))
                 /\ (p + 2 = Len(s) \/ ~IsWord(s[p + 3]))
        hits == {p \in 1..Len(s) : ok(p)}
    IN  IF hits = {} THEN 0 ELSE Min(hits)

\* clean_string from character i on; mode is Mode::Escaped or NotEscaped
RECURSIVE CleanFrom(_, _, _)
CleanFrom(s, i, mode) ==
    IF i > Len(s) THEN <<>>
    ELSE IF mode = "Escaped"
    THEN <<s[i]>> \o CleanFrom(s, i + 1, "NotEscaped")
    ELSE IF s[i] \in {"'", "\"", "{", "}"}
    THEN CleanFrom(s, i + 1, mode)
    ELSE IF s[i] = "\\"
    THEN <<"\\">> \o CleanFrom(s, i + 1, "Escaped")
    ELSE <<s[i]>> \o CleanFrom(s, i + 1, "NotEscaped")

clean_string(s) == CleanFrom(s, 1, "NotEscaped")

\* first_author_field_content from character i on.  boq is the
\* BracketOrQuote variant, num the payload of OpenBracket, start the
\* 1-based `start`.
RECURSIVE FieldContentFrom(_, _, _, _, _)
FieldContentFrom(field, i, boq, num, start) ==
    IF i > Len(field) THEN field
    ELSE LET char == field[i] IN
    IF char = "\\" THEN FieldContentFrom(field, i + 2, boq, num, start)
    ELSE IF boq = "None"
    THEN IF char = "{"
         THEN FieldContentFrom(field, i + 1, "OpenBracket", 1, i)
         ELSE IF char = "'"
         THEN FieldContentFrom(field, i + 1, "SingleQuote", num, i)
         ELSE IF char = "\""
         THEN FieldContentFrom(field, i + 1, "DoubleQuote", num, i)
         ELSE FieldContentFrom(field, i + 1, boq, num, i)
    ELSE IF boq = "OpenBracket"
    THEN IF char = "{"
         THEN FieldContentFrom(field, i + 1, boq, num + 1, start)
         ELSE IF char = "}"
         THEN IF num - 1 = 0
              THEN SubSeq(field, start, i)
              ELSE FieldContentFrom(field, i + 1, boq, num - 1, start)
         ELSE FieldContentFrom(field, i + 1, boq, num, start)
    ELSE IF boq = "SingleQuote"
    THEN IF char = "'"
         THEN SubSeq(field, start, i)
         ELSE FieldContentFrom(field, i + 1, boq, num, start)
    ELSE IF char = "\""
         THEN SubSeq(field, start, i)
         ELSE FieldContentFrom(field, i + 1, boq, num, start)

\* mutant of first_author_field_content: the outer delimiters are cut off
first_author_field_content_inner(field) ==
    LET v == FieldContentFrom(field, 1, "None", 0, 1)
    IN  IF v = field THEN v ELSE SubSeq(v, 2, Len(v) - 1)

first_author_field_content(field) ==
    FieldContentFrom(field, 1, "None", 0, 1)

first_author_from_content(c) ==
    LET author_pos_end == AUTHOR_POS_REGEX(c) IN
    IF author_pos_end = 0 THEN <<>>
    ELSE LET author_field_next ==
                 first_author_field_content(From(c, author_pos_end))
             and_start == AND(author_field_next)
         IN  clean_string(IF and_start = 0 THEN author_field_next
                          ELSE SubSeq(author_field_next, 1, and_start - 1))

\* first_author_first_name: the name, and whether the assert_eq! on a third
\* piece of split(',') panicked
first_author_first_name(c) ==
    LET fa == trim(first_author_from_content(c))
        commas == {i \in 1..Len(fa) : fa[i] = ","}
    IN  IF commas = {}
        THEN [panic |-> FALSE, name |-> trim(fa)]
        ELSE IF Cardinality(commas) = 1
        THEN LET k == Min(commas)
                 first_entry == SubSeq(fa, 1, k - 1)
                 first_name == From(fa, k + 1)
             IN  [panic |-> FALSE,
                  name |-> trim(first_name) \o <<" ">> \o trim(first_entry)]
        ELSE [panic |-> TRUE, name |-> <<>>]

\* get_string_case_fn(opts.case_sensitive)
get_string_case_fn(s) == IF opts.case_sensitive THEN s ELSE to_lowercase(s)

sort_by_first_author_field(to_sort) ==
    sort_by_cached_key(to_sort,
        [i \in 1..Len(to_sort) |->
            get_string_case_fn(first_author_from_content(to_sort[i].content))])

sort_by_first_author_first_name(to_sort) ==
    sort_by_cached_key(to_sort,
        [i \in 1..Len(to_sort) |->
            get_string_case_fn(
                first_author_first_name(to_sort[i].content).name)])

\* the two `if opts.sort_by_first_author_..` blocks of main
AuthorSort ==
    /\ pc = "author"
    /\ LET by_field == IF opts.sort_by_first_author_field
                       THEN sort_by_first_author_field(entries)
                       ELSE entries
           too_many == \E i \in 1..Len(by_field) :
                           first_author_first_name(by_field[i].content).panic
       IN
       IF opts.sort_by_first_author_first_name
       THEN IF too_many
            THEN /\ Panic("too many ',' in first author")
                 /\ entries' = by_field
            ELSE /\ entries' = sort_by_first_author_first_name(by_field)
                 /\ pc' = "open"
                 /\ UNCHANGED err
       ELSE /\ entries' = by_field
            /\ pc' = "open"
            /\ UNCHANGED err
    /\ UNCHANGED <<opts, file, pos, leftover, reader, id, raw_id, content,
                   bracket_counter, parsed, reports, out_created,
                   detected_duplicates, doi_set, doi_i, out, run, prev_out,
                   arg, fn, ret, received>>

---------------------------------------------------------------------------
(* main: output                                                            *)

\* match opts.out: stdout(), or File::create(out_path), which creates or
\* truncates the file
OpenOutput ==
    /\ pc = "open"
    /\ out_created' = opts.out
    /\ pc' = "write"
    /\ UNCHANGED <<opts, file, pos, leftover, reader, id, raw_id, content,
                   bracket_counter, entries, parsed, reports, err,
                   detected_duplicates, doi_set, doi_i, out, run, prev_out,
                   arg, fn, ret, received>>

\* write_entries: one successful writeln!(out, "{}\n", entry.content)
WriteEntry ==
    /\ pc = "write"
    /\ Len(out) < Len(entries)
    /\ out' = Append(out, entries[Len(out) + 1].content)
    /\ UNCHANGED <<opts, file, pos, leftover, reader, pc, id, raw_id, content,
                   bracket_counter, entries, parsed, reports, err,
                   out_created, detected_duplicates, doi_set, doi_i, run,
                   prev_out, arg, fn, ret, received>>

\* write_entries: a writeln! to stdout that fails with BrokenPipe: exit(0)
BrokenPipe ==
    /\ pc = "write"
    /\ ~opts.out
    /\ Len(out) < Len(entries)
    /\ pc' = "exit"
    /\ UNCHANGED <<opts, file, pos, leftover, reader, id, raw_id, content,
                   bracket_counter, entries, parsed, reports, err,
                   out_created, detected_duplicates, doi_set, doi_i, out,
                   run, prev_out, arg, fn, ret, received>>

\* write_entries and main return
Finish ==
    /\ pc = "write"
    /\ Len(out) = Len(entries)
    /\ pc' = "done"
    /\ UNCHANGED <<opts, file, pos, leftover, reader, id, raw_id, content,
                   bracket_counter, entries, parsed, reports, err,
                   out_created, detected_duplicates, doi_set, doi_i, out,
                   run, prev_out, arg, fn, ret, received>>

\* the bytes that reached the output: each content followed by "\n\n"
RECURSIVE OutText(_)
OutText(o) ==
    IF o = <<>> THEN <<>>
    ELSE Head(o) \o <<"\n", "\n">> \o OutText(Tail(o))

---------------------------------------------------------------------------
(* The input files and the options of the model                            *)

DefaultOpts ==
    [case_sensitive |-> FALSE, out |-> FALSE,
     no_duplicate_detection |-> FALSE, allow_empty_keys |-> FALSE,
     allow_doi_duplicates |-> FALSE, allow_empty_doi |-> FALSE,
     sort_by_first_author_field |-> FALSE,
     sort_by_first_author_first_name |-> FALSE]

\* entries on one line each, keys b, a and B; a blank line; a stray line
KeyLines ==
    { <<"@", "x", "{", "b", "}">>,
      <<"@", "x", "{", "a", "}">>,
      <<"@", "x", "{", "B", "}">>,
      <<>>,
      <<"y">> }

KeyOpts ==
    { [DefaultOpts EXCEPT !.case_sensitive = c, !.no_duplicate_detection = n,
                          !.out = o] : c \in BOOLEAN, n \in BOOLEAN,
                                       o \in BOOLEAN }

\* entries with a doi field: no token, twice the token 10.1; one without
DoiLines ==
    { <<"@", "x", "{", "a", ",", "d", "o", "i", "=", "}">>,
      <<"@", "x", "{", "b", ",", "d", "o", "i", "=", "1", "0", ".", "1", "}">>,
      <<"@", "x", "{", "c", ",", "D", "O", "I", " ", "=", "1", "0", ".", "1",
        "}">>,
      <<"@", "x", "{", "d", ",", "}">> }

DoiOpts ==
    { [DefaultOpts EXCEPT !.no_duplicate_detection = n,
                          !.allow_doi_duplicates = d,
                          !.allow_empty_doi = e] : n \in BOOLEAN,
                                                   d \in BOOLEAN,
                                                   e \in BOOLEAN }

\* entries without a key, over several lines, with and without a doi field
EmptyKeyLines ==
    { <<"@", "x", "{", ",">>,
      <<"}">>,
      <<"d", "o", "i", "=", "1", "0", ".", "1", "}">>,
      <<"d", "o", "i", "=", "1", "0", ".", "1", "}", "@", "x", "{", ",">>,
      <<"@", "x", "{", "a", ",", "d", "o", "i", "=", "1", "0", ".", "1", "}">> }

EmptyKeyOpts ==
    { [DefaultOpts EXCEPT !.allow_empty_keys = k,
                          !.no_duplicate_detection = n,
                          !.allow_doi_duplicates = d] : k \in BOOLEAN,
                                                        n \in BOOLEAN,
                                                        d \in BOOLEAN }

\* two entries on one line, one-line entries with a braced field value, an
\* indented entry over two lines, text after a closing brace
SharedLines ==
    { <<"@", "x", "{", "z", "}", "@", "x", "{", "a", "}">>,
      <<"@", "x", "{", "z", ",", "t", "=", "{", "a", "}", "}">>,
      <<"@", "x", "{", "a", ",", "t", "=", "{", "z", "}", "}">>,
      <<" ", "@", "x", "{", "b", ",">>,
      <<"}", " ">> }

SharedOpts ==
    { [DefaultOpts EXCEPT !.no_duplicate_detection = n, !.out = o] :
          n \in BOOLEAN, o \in BOOLEAN }

\* entries with an author field: three names, "Last, First", two authors
AuthorLines ==
    { <<"@", "x", "{", "a", ",", "a", "u", "t", "h", "o", "r", "=",
        "b", ",", "c", ",", "d", "}">>,
      <<"@", "x", "{", "b", ",", "a", "u", "t", "h", "o", "r", "=",
        "d", ",", " ", "c", "}">>,
      <<"@", "x", "{", "c", ",", "a", "u", "t", "h", "o", "r", "=",
        "D", " ", "a", "n", "d", " ", "e", "}">> }

AuthorOpts ==
    { [DefaultOpts EXCEPT !.case_sensitive = c,
                          !.sort_by_first_author_field = (m = "field"),
                          !.sort_by_first_author_first_name = (m = "name")] :
          c \in BOOLEAN, m \in {"key", "field", "name"} }

\* an entry left open, a closing line, one with text after the brace, a
\* "}" before any "{", a blank line, a stray line, and two entries with a
\* blank after them
StructureLines ==
    { <<"@", "x", "{", "a", ",">>,
      <<"@", "x", "{", "a", "}", "@", "x", "{", "b", "}", " ">>,
      <<"}">>,
      <<"}", "y">>,
      <<"@", "}", "{", "a">>,
      <<" ">>,
      <<"y">> }

StructureOpts == {DefaultOpts}

\* entries with an author field: two with one key whose authors differ in
\* a blank only, one whose author differs from theirs in letter case only,
\* and an entry over two lines without an author field
AuthorTieLines ==
    { <<"@", "x", "{", "b", ",", "a", "u", "t", "h", "o", "r", "=",
        "d", ",", " ", "c", "}">>,
      <<"@", "x", "{", "b", ",", "a", "u", "t", "h", "o", "r", "=",
        "d", ",", "c", "}">>,
      <<"@", "x", "{", "c", ",", "a", "u", "t", "h", "o", "r", "=",
        "D", ",", " ", "c", "}">>,
      <<"@", "x", "{", "d", ",">>,
      <<"}">> }

AuthorTieOpts ==
    { [DefaultOpts EXCEPT !.case_sensitive = c,
                          !.no_duplicate_detection = n,
                          !.sort_by_first_author_field = (m = "field"),
                          !.sort_by_first_author_first_name = (m = "name")] :
          c \in BOOLEAN, n \in BOOLEAN, m \in {"field", "name"} }

\* the inputs of the runs that are about the segmenter
SegmenterScenarios ==
    { [lines |-> SharedLines, opts |-> SharedOpts],
      [lines |-> StructureLines, opts |-> StructureOpts] }

\* the inputs of the runs that are about the author sorts
AuthorScenarios == { [lines |-> AuthorTieLines, opts |-> AuthorTieOpts] }

Scenarios ==
    { [lines |-> KeyLines, opts |-> KeyOpts],
      [lines |-> DoiLines, opts |-> DoiOpts],
      [lines |-> EmptyKeyLines, opts |-> EmptyKeyOpts],
      [lines |-> SharedLines, opts |-> SharedOpts],
      [lines |-> AuthorLines, opts |-> AuthorOpts] }

\* the files of at most MaxLines lines over a set of lines
Files(lines) == UNION {[1..n -> lines] : n \in 0..MaxLines}

---------------------------------------------------------------------------
(* The program                                                             *)

\* the state main starts its loop in, on an input of `scenarios`
InitOf(scenarios) ==
    /\ \E sc \in scenarios :
           /\ file \in Files(sc.lines)
           /\ opts \in sc.opts
    /\ pos = 0
    /\ leftover = <<>>
    /\ reader = "open"
    /\ pc = "scan"
    /\ id = <<>>
    /\ raw_id = <<>>
    /\ content = <<>>
    /\ bracket_counter = BracketCounterDefault
    /\ entries = <<>>
    /\ parsed = <<>>
    /\ reports = <<>>
    /\ err = ""
    /\ out_created = FALSE
    /\ detected_duplicates = FALSE
    /\ doi_set = {}
    /\ doi_i = 0
    /\ out = <<>>
    /\ run = 1
    /\ prev_out = <<>>
    /\ received = <<>>
    /\ arg = <<>>
    /\ fn = ""
    /\ ret = <<>>

Init == InitOf(Scenarios)

InitSegmenter == InitOf(SegmenterScenarios)

InitAuthor == InitOf(AuthorScenarios)

Next ==
    \/ ScanLine
    \/ AccumLine
    \/ DropReader
    \/ SortEntries
    \/ DuplicateKeys
    \/ DoiStep
    \/ DoiDone
    \/ CheckDuplicates
    \/ AuthorSort
    \/ OpenOutput
    \/ WriteEntry
    \/ BrokenPipe
    \/ Finish

Spec == Init /\ [][Next]_vars

\* main on the inputs that are about the segmenter
SpecSegmenter == InitSegmenter /\ [][Next]_vars

\* the while loop of main is running: a step of it can be taken
SegmenterRunning == pc \in {"scan", "accum"}

\* main runs on: the loop, while it is running, takes its next step. This is
\* WF_vars(ScanLine \/ AccumLine) with ENABLED written as SegmenterRunning
SpecSegmenterFair ==
    /\ SpecSegmenter
    /\ []<>(~SegmenterRunning) \/ []<><<ScanLine \/ AccumLine>>_vars

\* main on the inputs that are about the author sorts
SpecAuthor == InitAuthor /\ [][Next]_vars

\* BufRead::lines on a text: the pieces between "\n", no piece after a
\* final "\n"
RECURSIVE Lines(_)
Lines(t) ==
    IF t = <<>> THEN <<>>
    ELSE LET nl == {i \in 1..Len(t) : t[i] = "\n"}
         IN  IF nl = {} THEN <<t>>
             ELSE <<SubSeq(t, 1, Min(nl) - 1)>> \o Lines(From(t, Min(nl) + 1))

\* the program is run again, with the same options, on what run 1 wrote
Rerun ==
    /\ pc = "done"
    /\ run = 1
    /\ run' = 2
    /\ prev_out' = out
    /\ file' = Lines(OutText(out))
    /\ pos' = 0
    /\ leftover' = <<>>
    /\ reader' = "open"
    /\ pc' = "scan"
    /\ id' = <<>>
    /\ raw_id' = <<>>
    /\ content' = <<>>
    /\ bracket_counter' = BracketCounterDefault
    /\ entries' = <<>>
    /\ parsed' = <<>>
    /\ reports' = <<>>
    /\ err' = ""
    /\ out_created' = FALSE
    /\ detected_duplicates' = FALSE
    /\ doi_set' = {}
    /\ doi_i' = 0
    /\ out' = <<>>
    /\ received' = <<>>
    /\ UNCHANGED <<opts, arg, fn, ret>>

NextRerun == Next \/ Rerun

SpecRerun == Init /\ [][NextRerun]_vars

---------------------------------------------------------------------------
(* The functions of the program, called on their own                       *)

\* Bound of the model: the length of a text of TextAlphabet.
MaxLen == 5

\* the delimiters, the backslash and a letter
TextAlphabet == {"{", "}", "'", "\"", "\\", "a"}

\* the texts of at most MaxLen characters of TextAlphabet
Texts == UNION {[1..n -> TextAlphabet] : n \in 0..MaxLen}

\* field values of the documentation and the comments of the source
ExampleTexts ==
    { <<"{", "A", " ", "{", "B", "}", " ", "C", "}">>,
      <<"{", "A", " ", "{", "B", "}", " ", "C", "}", ",", "x", "=", "{",
        "y", "}">>,
      <<" ", "\"", "A", " ", "{", "B", "}", "\"", ",">>,
      <<"{", "A", "\\", "}", " ", "{", "B", "}", "}", ",", "x">>,
      <<"A", " ", "B", ",">> }

\* the delimiters of a field value
Delimiters ==
    { [open |-> <<"{">>, close |-> <<"}">>],
      [open |-> <<"\"">>, close |-> <<"\"">>],
      [open |-> <<"'">>, close |-> <<"'">>] }

\* a first author: "Last, First", a single name, "First Last", and a last
\* name that contains the letters of the separator
FirstAuthors ==
    { <<"S", "m", "i", "t", "h", ",", " ", "J", "o", "h", "n">>,
      <<"S", "m", "i", "t", "h">>,
      <<"J", "o", "h", "n", " ", "S", "m", "i", "t", "h">>,
      <<"S", "a", "n", "d", ",", "J", "o">> }

\* the separator of two authors, as a whole word in any letter case
Separators ==
    { <<" ", "a", "n", "d", " ">>,
      <<" ", "A", "N", "D", " ">>,
      <<" ", "A", "n", "d", " ">> }

\* what follows a separator: one more author, or two
OtherAuthors ==
    { <<"D", "o", "e", ",", " ", "J", "a", "n", "e">>,
      <<"D", "o", "e", " ", "a", "n", "d", " ", "B", "o">> }

\* the text of an entry whose author field holds x, then rest, between the
\* delimiters d
AuthorContent(d, x, rest) ==
    <<"@", "x", "{", "a", ",", "a", "u", "t", "h", "o", "r", " ", "=", " ">>
        \o d.open \o x \o rest \o d.close \o <<"}">>

\* the entries with one author (sep and other empty) and with several
AuthorCases ==
    { [d |-> d, x |-> x, sep |-> <<>>, other |-> <<>>] :
          d \in Delimiters, x \in FirstAuthors }
    \cup
    { [d |-> d, x |-> x, sep |-> s, other |-> y] :
          d \in Delimiters, x \in FirstAuthors, s \in Separators,
          y \in OtherAuthors }

AuthorContents ==
    { AuthorContent(c.d, c.x, c.sep \o c.other) : c \in AuthorCases }

\* one-line entries with an escaped brace in a field value
EscapedBraceLines ==
    { <<"@", "x", "{", "a", ",", "t", "=", "{", "\\", "}", "}", "}">>,
      <<"@", "x", "{", "a", ",", "t", "=", "{", "\\", "{", "}", "}">> }

CallArgs ==
    Texts \cup ExampleTexts \cup AuthorContents \cup EscapedBraceLines

\* the variables of main
mainvars == <<opts, file, pos, leftover, reader, pc, id, raw_id, content,
              bracket_counter, entries, parsed, reports, err, out_created,
              detected_duplicates, doi_set, doi_i, out, run, prev_out,
              received>>

\* a function is about to be called with arg; main is not running
InitCall ==
    /\ arg \in CallArgs
    /\ fn = ""
    /\ ret = <<>>
    /\ opts = DefaultOpts
    /\ file = <<>>
    /\ pos = 0
    /\ leftover = <<>>
    /\ reader = "open"
    /\ pc = "call"
    /\ id = <<>>
    /\ raw_id = <<>>
    /\ content = <<>>
    /\ bracket_counter = BracketCounterDefault
    /\ entries = <<>>
    /\ parsed = <<>>
    /\ reports = <<>>
    /\ err = ""
    /\ out_created = FALSE
    /\ detected_duplicates = FALSE
    /\ doi_set = {}
    /\ doi_i = 0
    /\ out = <<>>
    /\ run = 1
    /\ prev_out = <<>>
    /\ received = <<>>

Call_first_author_from_content ==
    /\ pc = "call" /\ fn = ""
    /\ fn' = "first_author_from_content"
    /\ ret' = first_author_from_content(arg)
    /\ UNCHANGED <<mainvars, arg>>

Call_first_author_first_name ==
    /\ pc = "call" /\ fn = ""
    /\ fn' = "first_author_first_name"
    /\ ret' = first_author_first_name(arg)
    /\ UNCHANGED <<mainvars, arg>>

Call_first_author_field_content ==
    /\ pc = "call" /\ fn = ""
    /\ fn' = "first_author_field_content"
    /\ ret' = first_author_field_content(arg)
    /\ UNCHANGED <<mainvars, arg>>

Call_clean_string ==
    /\ pc = "call" /\ fn = ""
    /\ fn' = "clean_string"
    /\ ret' = clean_string(arg)
    /\ UNCHANGED <<mainvars, arg>>

\* count_brackets_return_content on the first line of an entry
Call_count_brackets_return_content ==
    /\ pc = "call" /\ fn = ""
    /\ fn' = "count_brackets_return_content"
    /\ ret' = count_brackets_return_content(BracketCounterDefault, arg)
    /\ UNCHANGED <<mainvars, arg>>

NextCall ==
    \/ Call_count_brackets_return_content
    \/ Call_first_author_first_name
    \/ Call_first_author_from_content
    \/ Call_first_author_field_content
    \/ Call_clean_string

SpecCall == InitCall /\ [][NextCall]_vars

---------------------------------------------------------------------------
(* Properties                                                              *)

\* the contents of a sequence of entries
Contents(es) == [i \in 1..Len(es) |-> es[i].content]

\* how often x occurs in the sequence s
Count(s, x) == Cardinality({i \in 1..Len(s) : s[i] = x})

IsPermutation(a, b) ==
    /\ Len(a) = Len(b)
    /\ \A i \in 1..Len(a) : Count(a, a[i]) = Count(b, a[i])

\* a text without its whitespace
NonBlank(t) == LET keep(c) == ~IsWhitespace(c) IN SelectSeq(t, keep)

\* main is past the duplicate passes and the author sort
Validated == pc \in {"open", "write", "done", "exit"}

\* C1: output is created and written only after the whole input was read
\* into entries, the read handle was dropped and parsing, the duplicate
\* passes and the sort-key computation ended without a panic; a run that
\* panics has created no output file and has written no entry.
C1_OutputOnlyAfterValidation ==
    /\ (out_created \/ out # <<>>) =>
           /\ reader = "dropped"
           /\ pos = Len(file) /\ leftover = <<>>
           /\ Len(entries) = Len(parsed)
           /\ pc \in {"write", "done", "exit"}
           /\ err = ""
    /\ Validated => reader = "dropped" /\ err = ""
    /\ pc = "panic" => ~out_created /\ out = <<>> /\ err # ""

C1_Witness ==
    /\ pc = "done" /\ out_created /\ Len(out) >= 2 /\ Len(file) >= 2

\* C2: when a run ends normally, what was written is a permutation of the
\* entries read from the input, whatever the sort options; the entries
\* read are the text of the input between each "@" and its balancing "}"
\* (the input and the entries agree on everything but whitespace between
\* them, and each entry starts with "@" and ends with "}").
C2_OutputIsPermutation ==
    (pc = "done" /\ run = 1) =>
        /\ IsPermutation(out, Contents(parsed))
        /\ NonBlank(Concat(file)) = NonBlank(Concat(Contents(parsed)))
        /\ \A i \in 1..Len(out) :
               /\ Head(out[i]) = "@"
               /\ out[i][Len(out[i])] = "}"

C2_Witness ==
    /\ pc = "done" /\ run = 1
    /\ Len(out) >= 3
    /\ out # Contents(parsed)
    /\ \E i, j \in 1..Len(entries) : i # j /\ entries[i].id = entries[j].id

\* the contents of the entries of es whose key is k, in order
WithKey(es, k) == LET has(e) == e.id = k IN Contents(SelectSeq(es, has))

\* C3: with the default sort key, the entries are written in non-decreasing
\* byte order of their (case-folded unless case-sensitive) keys, and the
\* entries of one key are written in their input order.
C3_SortedByKeyStable ==
    (pc = "done" /\ ~opts.sort_by_first_author_field
                 /\ ~opts.sort_by_first_author_first_name) =>
        /\ out = Contents(entries)
        /\ \A i, j \in 1..Len(entries) :
               StrLess(entries[i].id, entries[j].id) => i < j
        /\ \A i \in 1..Len(parsed) :
               /\ WithKey(entries, parsed[i].id) = WithKey(parsed, parsed[i].id)
               /\ opts.case_sensitive
                      \/ parsed[i].id = to_lowercase(parsed[i].id)

C3_Witness ==
    /\ pc = "done"
    /\ ~opts.sort_by_first_author_field
    /\ ~opts.sort_by_first_author_first_name
    /\ out # Contents(parsed)
    /\ \E i, j \in 1..Len(entries) :
           /\ i < j
           /\ entries[i].id = entries[j].id
           /\ entries[i].content # entries[j].content

\* C4: when a run has succeeded, a second run with the same options on what
\* it wrote succeeds and writes the same bytes.
C4_Idempotent ==
    run = 2 =>
        /\ pc # "panic"
        /\ pc = "done" => OutText(out) = OutText(prev_out)

\* the maximal run of non-comma, non-whitespace characters that starts right
\* after the first "{" of the text c
KeyAfterFirstBrace(c) ==
    LET b == Min({i \in 1..Len(c) : c[i] = "{"})
        stop == {j \in (b + 1)..Len(c) : c[j] = "," \/ IsWhitespace(c[j])}
        e == IF stop = {} THEN Len(c) ELSE Min(stop) - 1
    IN  SubSeq(c, b + 1, e)

\* C5: the key parsed for an entry is the maximal run of non-comma,
\* non-whitespace characters right after the entry's first "{", case-folded
\* unless case-sensitive mode is on.
C5_KeyFollowsFirstBrace ==
    \A i \in 1..Len(parsed) :
        parsed[i].id = case_fn(KeyAfterFirstBrace(parsed[i].content))

\* the keys of a sequence of entries
Ids(es) == [i \in 1..Len(es) |-> es[i].id]

HasDuplicateKey(es) ==
    \E i, j \in 1..Len(es) :
        i # j /\ es[i].id # <<>> /\ es[i].id = es[j].id

\* the reports of one kind, in order
ReportsOf(kind) == LET is(r) == r.kind = kind IN SelectSeq(reports, is)

\* how many reports of a kind name `what`
ReportCount(kind, what) ==
    Cardinality({i \in 1..Len(reports) :
                    reports[i] = [kind |-> kind, what |-> what]})

\* the DOI token of an entry's doi field as Option; None too when the entry
\* has no doi field
DoiToken(e) ==
    IF doi_position_regex(e.content) = 0 THEN <<>>
    ELSE doi_regex(BeforeComma(From(e.content,
                                    doi_position_regex(e.content))))

\* the entry has a doi field without a DOI token
DoiUnparseable(e) ==
    doi_position_regex(e.content) # 0 /\ DoiToken(e) = <<>>

HasDuplicateDoi(es) ==
    \E i, j \in 1..Len(es) :
        /\ i # j /\ es[i].id # <<>> /\ es[j].id # <<>>
        /\ DoiToken(es[i]) # <<>> /\ DoiToken(es[i]) = DoiToken(es[j])

ParseErrors ==
    {"line outside bib item", "missing opening brace", "cannot find key",
     "bracket closed before opened", "unexpected end of file"}

\* the duplicate-key pass has run
KeyPassDone ==
    /\ ~opts.no_duplicate_detection
    /\ pc \notin {"scan", "accum", "drop", "sort", "dupkeys"}
    /\ err \notin ParseErrors

Max0(n) == IF n < 0 THEN 0 ELSE n

\* C6: with duplicate-key detection on, a run in which two parsed entries,
\* at any positions, have equal non-empty keys never gets to the author
\* sort or to output and ends in the duplicates panic (unless an
\* unparseable doi field panics first); the keys are reported in key order,
\* each key once per adjacent pair of the sorted list (its number of entries
\* less one); and a run whose keys are pairwise distinct and non-empty and
\* whose DOI tokens are not repeated reports nothing and never panics for
\* duplicates.
C6_DuplicateKeysAbort ==
    /\ (~opts.no_duplicate_detection /\ HasDuplicateKey(parsed)) =>
           /\ ~Validated /\ pc # "author"
           /\ out = <<>> /\ ~out_created
           /\ pc = "check" => detected_duplicates
           /\ pc = "panic" =>
                  err \in ParseErrors \cup {"duplicates detected",
                                            "cannot parse DOI"}
    /\ KeyPassDone =>
           /\ \A i \in 1..Len(parsed) :
                  parsed[i].id # <<>> =>
                      ReportCount("Duplicate key", parsed[i].id)
                          = Count(Ids(parsed), parsed[i].id) - 1
           /\ LET keys == ReportsOf("Duplicate key")
              IN  \A a, b \in 1..Len(keys) :
                      a < b => ~StrLess(keys[b].what, keys[a].what)
    /\ (~HasDuplicateKey(parsed) /\ ~HasDuplicateDoi(parsed)
            /\ \A i \in 1..Len(parsed) : parsed[i].id # <<>>) =>
           reports = <<>> /\ err # "duplicates detected"

C6_Witness ==
    /\ Len(parsed) = 3
    /\ parsed[1].id = parsed[3].id
    /\ parsed[1].id # parsed[2].id
    /\ pc = "panic" /\ err = "duplicates detected"
    /\ reports = <<[kind |-> "Duplicate key", what |-> parsed[1].id]>>

\* C7: the duplicate-DOI pass depends on the DOI toggle alone: with
\* duplicate-key detection off and DOI detection on, a run in which two
\* entries with non-empty keys carry the same DOI token never gets to
\* output; and with DOI detection off, duplicate keys still abort the run.
C7_DoiPassOwnToggle ==
    /\ (opts.no_duplicate_detection /\ ~opts.allow_doi_duplicates
            /\ HasDuplicateDoi(parsed)) => ~Validated
    /\ (~opts.no_duplicate_detection /\ opts.allow_doi_duplicates
            /\ HasDuplicateKey(parsed)) => ~Validated

\* the entries among the first n of `entries` that have a key and carry the
\* DOI token t
Carriers(t, n) ==
    {i \in 1..n : entries[i].id # <<>> /\ DoiToken(entries[i]) = <<t>>}

\* the DOI tokens of the entries
Tokens == {DoiToken(entries[i])[1] :
              i \in {j \in 1..Len(entries) : DoiToken(entries[j]) # <<>>}}

\* the DOI pass stops at entry e
StopsDoiPass(e) == e.id # <<>> /\ DoiUnparseable(e)

\* C8 as claimed: whenever the duplicate passes end the run, the DOI pass has
\* visited every entry, and every DOI token is reported once for each
\* further keyed entry carrying it, also after a doi field without a token.
C8_FullScanBeforeFailure ==
    (pc = "panic" /\ err \in {"cannot parse DOI", "duplicates detected"}
         /\ ~opts.allow_doi_duplicates) =>
        /\ doi_i = Len(entries)
        /\ \A t \in Tokens :
               ReportCount("Duplicate DOI", t)
                   = Max0(Cardinality(Carriers(t, Len(entries))) - 1)

\* C8 as amended: duplicate keys and duplicate DOIs are aggregated: each is
\* reported, and the duplicates panic is raised only after the DOI pass has
\* visited every entry.  A doi field without a DOI token (empty DOIs not
\* allowed) is not aggregated: it panics at once, at the first such entry
\* in key order, so only the duplicate DOIs among the entries before it
\* are reported and no run with such an entry gets past the DOI pass.
C8_AggregatedUntilUnparseableDoi ==
    /\ \A t \in Tokens :
           ReportCount("Duplicate DOI", t)
               = Max0(Cardinality(Carriers(t, doi_i)) - 1)
    /\ err = "duplicates detected" =>
           /\ pc = "panic"
           /\ reports # <<>>
           /\ doi_i = Len(entries) \/ opts.allow_doi_duplicates
    /\ err = "cannot parse DOI" =>
           /\ pc = "panic"
           /\ ~opts.allow_empty_doi
           /\ StopsDoiPass(entries[doi_i])
           /\ \A i \in 1..(doi_i - 1) : ~StopsDoiPass(entries[i])
    /\ (~opts.no_duplicate_detection /\ ~opts.allow_doi_duplicates
            /\ ~opts.allow_empty_doi
            /\ \E i \in 1..Len(parsed) : StopsDoiPass(parsed[i])) =>
           /\ pc \notin {"check", "author"} /\ ~Validated
           /\ err # "duplicates detected"

C8_Witness ==
    /\ pc = "panic" /\ err = "cannot parse DOI"
    /\ doi_i < Len(entries)
    /\ \E i, j \in (doi_i + 1)..Len(entries) :
           /\ i # j
           /\ DoiToken(entries[i]) # <<>>
           /\ DoiToken(entries[i]) = DoiToken(entries[j])
    /\ reports = <<>>

\* C9: two entries whose keys, as matched in the input, differ only in
\* letter case: in case-insensitive mode with duplicate detection on they
\* get the same key, are reported as a duplicate key and the run never
\* gets to output; in case-sensitive mode they keep different keys, and a
\* run all of whose matched keys differ reports no duplicate key.
C9_CaseFoldedDuplicates ==
    /\ \A i, j \in 1..Len(parsed) :
           (/\ parsed[i].raw # parsed[j].raw
            /\ to_lowercase(parsed[i].raw) = to_lowercase(parsed[j].raw)) =>
               IF opts.case_sensitive
               THEN parsed[i].id # parsed[j].id
               ELSE /\ parsed[i].id = parsed[j].id
                    /\ ~opts.no_duplicate_detection =>
                           /\ ~Validated /\ pc # "author"
                           /\ KeyPassDone =>
                                  ReportCount("Duplicate key",
                                              parsed[i].id) >= 1
    /\ (opts.case_sensitive
            /\ \A i, j \in 1..Len(parsed) :
                   i # j => parsed[i].raw # parsed[j].raw) =>
           ReportsOf("Duplicate key") = <<>>

C9_Witness ==
    /\ ~opts.case_sensitive
    /\ pc = "panic" /\ err = "duplicates detected"
    /\ \E i, j \in 1..Len(parsed) :
           /\ parsed[i].raw # parsed[j].raw
           /\ parsed[i].id = parsed[j].id
           /\ reports = <<[kind |-> "Duplicate key", what |-> parsed[i].id]>>

\* the first line of an entry's text has no key: after its opening brace
\* there are only commas and whitespace
FirstLineWithoutKey(c) ==
    LET nl == {i \in 1..Len(c) : c[i] = "\n"}
        last == IF nl = {} THEN Len(c) ELSE Min(nl) - 1
        b == Min({i \in 1..Len(c) : c[i] = "{"})
    IN  /\ b <= last
        /\ \A k \in (b + 1)..last : c[k] = "," \/ IsWhitespace(c[k])

\* C10: an entry whose first line has no key after its opening brace is
\* never accepted unless empty keys are permitted (the run panics), and
\* with them permitted it is accepted with the empty key; a key is empty
\* only when empty keys are permitted; and entries with the empty key are
\* exempt from both duplicate passes: no duplicate key report names the
\* empty key, and a DOI token is reported only for the entries WITH a key
\* that carry it, so entries without a key alone never produce a report.
C10_EmptyKeys ==
    /\ \A i \in 1..Len(parsed) :
           /\ parsed[i].id = <<>> => opts.allow_empty_keys
           /\ FirstLineWithoutKey(parsed[i].content) =>
                  opts.allow_empty_keys /\ parsed[i].id = <<>>
    /\ err = "cannot find key" => ~opts.allow_empty_keys /\ pc = "panic"
    /\ \A i \in 1..Len(reports) :
           reports[i].kind = "Duplicate key" => reports[i].what # <<>>
    /\ \A t \in Tokens :
           ReportCount("Duplicate DOI", t)
               <= Max0(Cardinality(Carriers(t, Len(entries))) - 1)
    /\ Cardinality({i \in 1..Len(parsed) : parsed[i].id # <<>>}) <= 1 =>
           reports = <<>> /\ err # "duplicates detected"

C10_Witness ==
    /\ pc = "done"
    /\ reports = <<>>
    /\ ~opts.no_duplicate_detection /\ ~opts.allow_doi_duplicates
    /\ \E i, j \in 1..Len(entries) :
           /\ i # j
           /\ entries[i].id = <<>> /\ entries[j].id = <<>>
           /\ DoiToken(entries[i]) # <<>>
           /\ DoiToken(entries[i]) = DoiToken(entries[j])

\* "Last, First" as "First Last"; a name without a comma as it is
FirstLast(x) ==
    LET commas == {i \in 1..Len(x) : x[i] = ","}
    IN  IF commas = {} THEN x
        ELSE trim(From(x, Min(commas) + 1)) \o <<" ">>
                 \o trim(SubSeq(x, 1, Min(commas) - 1))

\* C11: for an author field that holds a first author X, alone or followed
\* by a separator (the whole word "and" in any letter case) and further
\* authors, the first-author-field text is exactly X, the same text the
\* field with X alone gives; and the first-author-first-name text is
\* "First Last" when X is "Last, First" and X itself when X has no comma.
C11_FirstAuthor ==
    \A c \in AuthorCases :
        arg = AuthorContent(c.d, c.x, c.sep \o c.other) =>
            /\ fn = "first_author_from_content" =>
                   /\ ret = c.x
                   /\ ret = first_author_from_content(
                                AuthorContent(c.d, c.x, <<>>))
            /\ fn = "first_author_first_name" =>
                   ret = [panic |-> FALSE, name |-> FirstLast(c.x)]


\* the text s from character i on without its escaped braces: a backslash
\* escapes the next character, and "\{" and "\}" are taken out
RECURSIVE WithoutEscapedBraces(_, _)
WithoutEscapedBraces(s, i) ==
    IF i > Len(s) THEN <<>>
    ELSE IF s[i] = "\\" /\ i < Len(s)
    THEN (IF s[i + 1] \in {"{", "}"} THEN <<>> ELSE <<s[i], s[i + 1]>>)
             \o WithoutEscapedBraces(s, i + 2)
    ELSE <<s[i]>> \o WithoutEscapedBraces(s, i + 1)

\* C12: an escaped brace does not change the counts of the brace balancer:
\* a scan of a text and a scan of the same text with its escaped braces
\* removed end with the same counts, both balanced or both not, both
\* panicking or both not, and at the same closing brace (the texts
\* returned agree but for the escaped braces).
C12_EscapedBraceNotCounted ==
    fn = "count_brackets_return_content" =>
        LET plain == count_brackets_return_content(
                         BracketCounterDefault, WithoutEscapedBraces(arg, 1))
        IN  /\ ret.bc = plain.bc
            /\ ret.panic = plain.panic
            /\ WithoutEscapedBraces(ret.content, 1) = plain.content

\* character i of s is escaped: it follows a backslash that is not escaped
RECURSIVE Escaped(_, _)
Escaped(s, i) == i > 1 /\ s[i - 1] = "\\" /\ ~Escaped(s, i - 1)

\* the positions of s that hold an unescaped opening delimiter
Openers(s) ==
    {i \in 1..Len(s) : s[i] \in {"{", "'", "\""} /\ ~Escaped(s, i)}

\* the unescaped occurrences of c in s from a to j
Unescaped(s, c, a, j) ==
    Cardinality({k \in a..j : s[k] = c /\ ~Escaped(s, k)})

\* the positions that close the value opened at a: an unescaped "}" where
\* the depth is back at zero, or an unescaped quote like the one at a
Closers(s, a) ==
    {j \in (a + 1)..Len(s) :
        /\ ~Escaped(s, j)
        /\ IF s[a] = "{"
           THEN /\ s[j] = "}"
                /\ Unescaped(s, "{", a, j) = Unescaped(s, "}", a, j)
           ELSE s[j] = s[a]}

\* the value of the field text s, to be cut by `cut` from the first opener
\* a to the first closer e; s itself when nothing opens or nothing closes
DelimitedValue(s, cut(_, _, _)) ==
    IF Openers(s) = {} THEN s
    ELSE LET a == Min(Openers(s))
         IN  IF Closers(s, a) = {} THEN s
             ELSE cut(s, a, Min(Closers(s, a)))

WithDelimiters(s, a, e) == SubSeq(s, a, e)

WithoutDelimiters(s, a, e) == SubSeq(s, a + 1, e - 1)

\* C13 as claimed: the value returned is the text between the outer
\* delimiters, so {A {B} C} gives A {B} C.
C13_ValueBetweenDelimiters ==
    fn = "first_author_field_content" =>
        ret = DelimitedValue(arg, WithoutDelimiters)

\* C13 as amended: the value returned starts at the first unescaped "{",
\* "'" or double quote and ends at the unescaped "}" that brings the depth
\* back to zero, or at the next unescaped quote of the same kind; an
\* escaped character neither opens nor closes nor counts; the value
\* INCLUDES its two outer delimiters and is otherwise the text of the
\* field unchanged; when nothing opens (or nothing closes) the whole text
\* is returned.
C13_ValueWithDelimiters ==
    fn = "first_author_field_content" =>
        ret = DelimitedValue(arg, WithDelimiters)

C13_Witness ==
    /\ fn = "first_author_field_content"
    /\ arg = <<"{", "A", "\\", "}", " ", "{", "B", "}", "}", ",", "x">>
    /\ ret = <<"{", "A", "\\", "}", " ", "{", "B", "}", "}">>

\* the characters of s at the positions for which keep(s, i) holds
Kept(s, keep(_, _)) ==
    LET here(i) == keep(s, i)
        at == SelectSeq([i \in 1..Len(s) |-> i], here)
    IN  [k \in 1..Len(at) |-> s[at[k]]]

\* an escaped character, or one that is neither a delimiter nor a backslash
KeptWhenStripped(s, i) ==
    Escaped(s, i) \/ s[i] \notin {"{", "}", "'", "\"", "\\"}

\* C14: clean_string removes every unescaped "{", "}", "'" and double
\* quote, copies the character that follows an unescaped backslash as it
\* is, and drops that backslash: the result is the escaped characters and
\* the characters that are neither delimiters nor backslashes, in order.
C14_CleanStripsFully ==
    fn = "clean_string" => ret = Kept(arg, KeptWhenStripped)

\* how often the character c occurs among the first p characters of t
Occurs(t, c, p) == Cardinality({k \in 1..p : t[k] = c})

\* the text t is one entry: it starts with "@", no prefix has more "}" than
\* "{", and its last character is the first at which a "{" has been seen
\* and as many "}" as "{"
BalancedEntry(t) ==
    /\ t # <<>>
    /\ t[1] = "@"
    /\ \A p \in 1..Len(t) :
           /\ Occurs(t, "}", p) <= Occurs(t, "{", p)
           /\ (/\ Occurs(t, "{", p) >= 1
               /\ Occurs(t, "{", p) = Occurs(t, "}", p)) <=> p = Len(t)

\* C15: every entry the segmenter has pushed, and so every entry sorted or
\* written, is brace-balanced: equal counts of "{" and "}", no prefix with
\* more "}" than "{", "@" first, and the balance reached for the first
\* time at the last character.
C15_EntriesBalanced ==
    /\ \A i \in 1..Len(parsed) : BalancedEntry(parsed[i].content)
    /\ \A i \in 1..Len(entries) : BalancedEntry(entries[i].content)
    /\ \A i \in 1..Len(out) : BalancedEntry(out[i])

\* an entry over two lines, and a line that holds two entries
C15_Witness ==
    /\ pc = "done"
    /\ \E i \in 1..Len(out) : \E k \in 1..Len(out[i]) : out[i][k] = "\n"
    /\ \E l \in 1..Len(file) :
           \A i \in 1..Len(out) : Len(file[l]) > Len(out[i])

\* x is what follows a "}" in t: a non-empty proper suffix of t after a "}"
FragmentOf(x, t) ==
    /\ x # <<>>
    /\ Len(x) < Len(t)
    /\ x = From(t, Len(t) - Len(x) + 1)
    /\ t[Len(t) - Len(x)] = "}"

\* the last line of a text
LastLine(t) ==
    LET nl == {i \in 1..Len(t) : t[i] = "\n"}
    IN  IF nl = {} THEN t ELSE From(t, Max(nl) + 1)

\* the item as the segmenter pushes it as a pending fragment
Pending(x) == [text |-> x, kind |-> "leftover"]

\* the lines of the file among the items received
ReceivedLines ==
    LET line(r) == r.kind = "line"
        rs == SelectSeq(received, line)
    IN  [k \in 1..Len(rs) |-> rs[k].text]

\* at most one fragment is pending, it is what followed the closing brace
\* in the item received last, and the segmenter is between two entries;
\* every fragment received is what followed a closing brace in the item
\* received before it; the lines received are the lines of the file so
\* far, in order, each once
SupplyInv ==
    /\ Len(leftover) <= 1
    /\ leftover # <<>> =>
           /\ received # <<>>
           /\ FragmentOf(leftover[1], received[Len(received)].text)
           /\ pc = "scan"
    /\ \A k \in 1..Len(received) :
           received[k].kind = "leftover" =>
               k > 1 /\ FragmentOf(received[k].text, received[k - 1].text)
    /\ ReceivedLines = SubSeq(file, 1, pos)
    /\ pc \notin {"scan", "accum", "panic"} =>
           leftover = <<>> /\ pos = Len(file)

\* a pending fragment is the very next item received, no line of the file
\* is pulled before it, and it leaves the buffer in no other way; and
\* when an entry ends in the item received, the text after its closing
\* brace, if any, is the fragment pending afterwards
SupplyStep ==
    /\ leftover # <<>> =>
           \/ leftover' = leftover /\ received' = received
           \/ received' = Append(received, Pending(leftover[1])) /\ pos' = pos
    /\ Len(parsed') > Len(parsed) =>
           LET e == parsed'[Len(parsed')].content
               t == received'[Len(received')].text
               body == IF LastLine(e) = e THEN trim_start(t) ELSE t
               rest == From(body, Len(LastLine(e)) + 1)
           IN  /\ Len(received') = Len(received) + 1
               /\ SubSeq(body, 1, Len(LastLine(e))) = LastLine(e)
               /\ leftover' = IF rest = <<>> THEN <<>> ELSE <<rest>>

\* C16: the line supply holds at most one pending fragment; the text that
\* follows an entry's closing brace on its line is pushed back and is the
\* very next item the segmenter receives, before any new line; a pending
\* fragment is never overwritten or dropped; and the lines of the input
\* are received in order, each once.
C16_Pushback == []SupplyInv /\ [][SupplyStep]_vars

C16_Witness ==
    /\ pc = "done"
    /\ Len(file) = 3
    /\ pos = 3
    /\ Len(received) = 5
    /\ received[2].kind = "leftover"
    /\ received[2].text = parsed[2].content
    /\ received[5].kind = "leftover"

\* the lines of the file before line l, as one text
Before(l) == Concat(SubSeq(file, 1, l - 1))

\* how many more "{" than "}" the file holds up to character p of line l
DepthAt(l, p) ==
    LET b == Before(l)
    IN  Occurs(b, "{", Len(b)) + Occurs(file[l], "{", p)
            - Occurs(b, "}", Len(b)) - Occurs(file[l], "}", p)

\* the input ends with a "{" that was never closed
Unclosed == Len(file) > 0 /\ DepthAt(Len(file), Len(file[Len(file)])) > 0

\* some "}" of the input has more "}" than "{" before and with it
ClosedBeforeOpened ==
    \E l \in 1..Len(file) : \E p \in 1..Len(file[l]) : DepthAt(l, p) < 0

\* outside any entry, at the start of a line or after a closing brace,
\* there is text on the line that is not blank and whose first non-blank
\* character is not "@"
StrayText ==
    \E l \in 1..Len(file) : \E p \in 0..Len(file[l]) :
        /\ DepthAt(l, p) = 0
        /\ p = 0 \/ file[l][p] = "}"
        /\ NonBlank(From(file[l], p + 1)) # <<>>
        /\ NonBlank(From(file[l], p + 1))[1] # "@"

\* the segmenter loop has ended
ParseEnded == pc \notin {"scan", "accum"}

\* C17: structural errors are fatal: a run on an input that ends with an
\* open brace, that has a "}" in excess, or that has non-blank text not
\* starting with "@" outside any entry (at the start of a line or after a
\* closing brace) ends its segmenter loop only in a panic, with nothing
\* written; each of the three panics is raised only in its case (blank
\* lines and leading whitespace raise none); and no entry pushed is
\* truncated or merged.
C17_StructuralErrorsFatal ==
    /\ (ParseEnded /\ ~(pc = "panic" /\ err \in ParseErrors)) =>
           ~(Unclosed \/ ClosedBeforeOpened \/ StrayText)
    /\ pc = "panic" => out = <<>> /\ ~out_created
    /\ err = "unexpected end of file" =>
           /\ pc = "panic" /\ Unclosed
           /\ pos = Len(file) /\ leftover = <<>>
           /\ bracket_counter.open > bracket_counter.close
    /\ err = "bracket closed before opened" =>
           /\ pc = "panic" /\ ClosedBeforeOpened
           /\ bracket_counter.close > bracket_counter.open
    /\ err = "line outside bib item" =>
           /\ pc = "panic" /\ StrayText
           /\ NonBlank(received[Len(received)].text) # <<>>
           /\ NonBlank(received[Len(received)].text)[1] # "@"
    /\ \A i \in 1..Len(parsed) : BalancedEntry(parsed[i].content)

\* a blank line is skipped, an entry over two lines is read, and the text
\* after its closing brace ends the run
C17_Witness ==
    /\ pc = "panic" /\ err = "line outside bib item"
    /\ Len(parsed) = 1
    /\ Len(received) = 4
    /\ NonBlank(received[1].text) = <<>>
    /\ received[4] = Pending(<<"y">>)

\* an author-based sort key is selected
ByAuthor ==
    opts.sort_by_first_author_field \/ opts.sort_by_first_author_first_name

\* the author sort key of an entry: its first-author text, or its
\* first-author name, folded unless the run is case-sensitive
AuthorKey(e) ==
    LET text == IF opts.sort_by_first_author_field
                THEN first_author_from_content(e.content)
                ELSE first_author_first_name(e.content).name
    IN  IF opts.case_sensitive THEN text ELSE to_lowercase(text)

\* the contents of the entries of es with the author sort key k and the
\* entry key d, in order
WithKeys(es, k, d) ==
    LET has(e) == AuthorKey(e) = k /\ e.id = d
    IN  Contents(SelectSeq(es, has))

\* C18: with an author-based sort key the entries are written in
\* non-decreasing order of their author sort keys; those with one author
\* sort key in ascending order of their entry keys, and those with one
\* author sort key and one entry key in input order; an entry without an
\* author field has the empty author sort key, and those entries are
\* written before every entry with a non-empty one.
C18_SortedByAuthor ==
    (pc = "done" /\ ByAuthor) =>
        /\ out = Contents(entries)
        /\ \A i, j \in 1..Len(entries) :
               i < j =>
                   /\ ~StrLess(AuthorKey(entries[j]), AuthorKey(entries[i]))
                   /\ AuthorKey(entries[i]) = AuthorKey(entries[j]) =>
                          ~StrLess(entries[j].id, entries[i].id)
        /\ \A i \in 1..Len(parsed) :
               WithKeys(entries, AuthorKey(parsed[i]), parsed[i].id)
                   = WithKeys(parsed, AuthorKey(parsed[i]), parsed[i].id)
        /\ \A i \in 1..Len(entries) :
               AUTHOR_POS_REGEX(entries[i].content) = 0 =>
                   /\ AuthorKey(entries[i]) = <<>>
                   /\ \A j \in 1..Len(entries) :
                          AuthorKey(entries[j]) # <<>> => i < j

\* two entries with one author sort key are written in the order of their
\* keys, against their input order, and before an entry with a greater
\* author sort key and a smaller key
C18_Witness ==
    /\ pc = "done" /\ ByAuthor
    /\ Len(parsed) = 3
    /\ AuthorKey(parsed[1]) = AuthorKey(parsed[2])
    /\ StrLess(parsed[2].id, parsed[1].id)
    /\ out = <<parsed[2].content, parsed[1].content, parsed[3].content>>
    /\ StrLess(AuthorKey(parsed[1]), AuthorKey(parsed[3]))
    /\ StrLess(parsed[3].id, parsed[1].id)

\* the length of the pending fragment, 0 when there is none
LeftLen(lo) == IF lo = <<>> THEN 0 ELSE Len(lo[1])

\* a step of the segmenter loop consumes one new line of the input, or the
\* pending fragment (and then what it leaves pending is shorter), or finds
\* the input at its end; and what a step pushes back is a proper suffix
\* of the text it received
SegmenterStepConsumes ==
    pc \in {"scan", "accum"} =>
        /\ \/ /\ leftover = <<>>
              /\ pos' = pos + 1
              /\ received' = Append(received,
                                    [text |-> file[pos'], kind |-> "line"])
           \/ /\ leftover # <<>>
              /\ pos' = pos
              /\ received' = Append(received, Pending(leftover[1]))
              /\ LeftLen(leftover') < LeftLen(leftover)
           \/ /\ leftover = <<>> /\ pos = Len(file)
              /\ pos' = pos /\ received' = received /\ leftover' = <<>>
              /\ pc' \in {"drop", "panic"}
        /\ leftover' # <<>> =>
               FragmentOf(leftover'[1], received'[Len(received')].text)

\* the loop has ended in a panic, or at the end of the input with no entry
\* left unfinished
SegmenterEnd ==
    ParseEnded =>
        \/ pc = "panic" /\ err \in ParseErrors
        \/ /\ pos = Len(file) /\ leftover = <<>>
           /\ content = <<>> /\ equal_brackets(bracket_counter)

\* C19: the segmenter loop terminates: every step consumes a new line of
\* the input or the pending fragment, a fragment pushed back is a proper
\* suffix of the text just scanned, so the pending text gets shorter while
\* no line is pulled; the loop always ends, at the end of the input with
\* every entry complete or in a panic.
C19_SegmenterTerminates ==
    /\ <>ParseEnded
    /\ []SegmenterEnd
    /\ [][SegmenterStepConsumes]_vars

\* the loop has ended after a fragment of a fragment was received
C19_Witness ==
    /\ pc = "drop"
    /\ Len(parsed) >= 2
    /\ \E k \in 1..(Len(received) - 1) :
           /\ received[k].kind = "leftover"
           /\ received[k + 1].kind = "leftover"

=============================================================================
